---- MODULE Spec2Model ----
(***************************************************************************)
(* The example_six backend: the upload / update / delete endpoints of      *)
(* main.py, the AgentDocument methods of agent.py they call, and the       *)
(* document_metadata table of models.py.                                   *)
(*                                                                         *)
(* Two stores are kept side by side: the vector index (PGVectorStore       *)
(* behind a VectorStoreIndex) and the document_metadata table.  The data   *)
(* folder holds the uploaded files.  The endpoint handlers contain no      *)
(* await, so one handler runs from its first line to its return without    *)
(* another handler of the same process running in between: each handler    *)
(* is one action.                                                          *)
(*                                                                         *)
(* Every call into a store, the file system or the directory reader may    *)
(* raise.  Which call raises is an input of the action (the record flt).   *)
(* A call that raises has no effect on its store.                          *)
(*                                                                         *)
(* Four specifications share the definitions of the handlers:              *)
(*   Spec         the requests of one process whose agent is attached to   *)
(*                an existing vector store;                                *)
(*   SpecBoot     the first start and what follows it: lifespan, the       *)
(*                shutdown, and the requests that construct the            *)
(*                AgentDocument again (ask, set-task-type);                *)
(*   SpecWorkers  the app served by two worker processes, where the calls  *)
(*                of two handlers interleave;                              *)
(*   SpecAsk      POST /ask/ call by call: the run of the agent and the    *)
(*                two completions of context_evaluator.py, whose scores    *)
(*                are IEEE-754 doubles.                                    *)
(* A fifth, SpecFour, is the example_four backend (main.py, agent.py).     *)
(***************************************************************************)
EXTENDS Integers, Sequences, FiniteSets, TLC

\* ---------------------------------------------------------------- bounds

\* Most documents SimpleDirectoryReader splits one file into (one per page).
MaxDocs == 2
\* The clock starts at 1 and a file save takes one tick: no request saves a
\* file once the clock shows MaxClock.
MaxClock == 3
\* No more than MaxFaults calls raise in one run.
MaxFaults == 1
\* The scores the completion service gives run from 0.0 to MaxScore tenths.
MaxScore == 11

Filenames == {"a"}

\* dict.get(key) of a key the reader's metadata does not hold.
NoKey == -1
\* Column(DateTime, default=datetime.now(timezone.utc)): evaluated once, when
\* models.py is imported; the clock of the requests starts after it.
ColumnDefault == 0
\* get_doc_id_from_filename returning None.
None == 0

\* The optional metadata keys create_document_session asks the reader's
\* documents for; file_name and file_size are always there.
OptionalKeys == {"modified_at", "accessed_at"}

\* The task types the requests name; set_task_type takes the first two of its
\* five valid ones and refuses any other.
TaskTypes == {"default", "research"}
InvalidTaskType == "bogus"

\* The worker processes that serve the app.
Procs == {"w1", "w2"}

VARIABLES
    workers,  \* what each worker process is doing: its request, the step it is
              \* at (pc), what it holds in local variables, its last reply
    agent_instance, \* the global of main.py: the task type of the AgentDocument
              \* and how it got its index
    vectorTable,  \* whether the table data_agent_vectors exists
    readerKeys, \* the optional metadata keys the reader's documents carry
    data,     \* the data folder: filename -> [size, pages]; every save writes
              \* another content, told from the others by its size
    meta,     \* the document_metadata table: a set of rows
    index,    \* the vector index: a set of entries, each under a ref doc id
    now,      \* the clock
    faults,   \* the calls that have raised so far
    last      \* the request that completed last, and what it reported

vars == <<workers, agent_instance, vectorTable, readerKeys, data, meta, index, now,
          faults, last>>

\* agent_instance = None: lifespan has not run.
NoAgent == [task_type |-> "", index |-> "unset"]

\* AgentDocument(task_type): self.index is what load_or_create_index returned,
\* "None" when it returned nothing.
AgentDocument(task_type, loaded) == [task_type |-> task_type, index |-> loaded]

\* ------------------------------------------------------------ responses

Started == "started"
ShutDown == "Shutting down..."
TaskTypeSet == "Task type set"
TaskTypeInvalid == "Invalid task type"
AskOk == "success"
AskFailed == "failed"

UploadExists == "File already exist in database. Please use update."
UploadOk == "File saved and indexed successfully"
UploadNotIndexed == "File saved but indexing failed"
UploadError == "upload file failed"
UpdateMissing == "File does not exist in database. Please upload first."
UpdateNoId == "Could not retrieve document ID from filename."
UpdateOk == "File updated and re-indexed successfully"
UpdateNotIndexed == "File updated but re-indexing failed"
UpdateError == "update file failed"
DeleteNoId == "Could not retrieve document ID from filename."
DeleteIndexFailed == "Failed to delete from vector store."
DeleteOk == "File deleted successfully from disk and vector store."
DeleteError == "delete file failed"
WriteFailed == "writing file failed"

\* ------------------------------------------------------ the reader's documents

\* uuid4(): an id that occurs nowhere; the k-th fresh id is the k-th number
\* that is none of used.
FreshId(used, k) ==
    LET unused == (1..(Cardinality(used) + k)) \ used
    IN  CHOOSE x \in unused : Cardinality({y \in unused : y < x}) = k - 1

\* SimpleDirectoryReader(input_files=[filepath]).load_data(): one document per
\* page, each with a fresh doc_id and the metadata of the file, which was
\* saved and is read at time t.
LoadData(f, file, used, keys, t) ==
    [i \in 1..file.pages |->
        [doc_id |-> FreshId(used, i),
         file_name |-> f,
         file_size |-> file.size,
         page |-> i,
         modified_at |-> IF "modified_at" \in keys THEN t ELSE NoKey,
         accessed_at |-> IF "accessed_at" \in keys THEN t ELSE NoKey]]

\* SimpleDirectoryReader("data").load_data(): the documents of every file of
\* the folder.
RECURSIVE LoadFolder(_, _, _, _, _)
LoadFolder(folder, files, used, keys, t) ==
    IF files = {} THEN <<>>
    ELSE LET f == CHOOSE g \in files : TRUE
             docs == LoadData(f, folder[f], used, keys, t)
         IN  docs \o LoadFolder(folder, files \ {f},
                                used \cup {docs[i].doc_id : i \in 1..Len(docs)},
                                keys, t)

\* updated_documents[i].doc_id = doc_id
WithDocId(docs, doc_id) ==
    [i \in 1..Len(docs) |-> [docs[i] EXCEPT !.doc_id = doc_id]]

\* ---------------------------------------------------- document_metadata

check_document_exists_with_doc_id(table, doc_id) ==
    \E r \in table : r.doc_id = doc_id

\* A filter that no row passes.
check_document_exists_never(table, f) == FALSE

check_document_exists_with_filename(table, f) ==
    \E r \in table : r.filename = f

\* .filter(filename == f).first() has no ORDER BY: any row of f may be the
\* first.  The doc ids a lookup of f can return; {None} when f has no row.
get_doc_id_from_filename(table, f) ==
    IF \E r \in table : r.filename = f
    THEN {r.doc_id : r \in {x \in table : x.filename = f}}
    ELSE {None}

\* DocumentMetadata(filename=..., doc_id=..., size=..., modified_at=...): a
\* column given None takes its default; the primary key id is set when the
\* row is committed.
NewRow(doc) ==
    [id |-> None,
     doc_id |-> doc.doc_id,
     filename |-> doc.file_name,
     size |-> doc.file_size,
     modified_at |-> IF doc.modified_at = NoKey THEN ColumnDefault
                     ELSE doc.modified_at,
     accessed_at |-> IF doc.accessed_at = NoKey THEN ColumnDefault
                     ELSE doc.accessed_at]

\* The update branch: metadata.get(key, the row's value).
UpdatedRow(row, doc) ==
    [row EXCEPT
        !.size = doc.file_size,
        !.modified_at = IF doc.modified_at = NoKey THEN @ ELSE doc.modified_at,
        !.accessed_at = IF doc.accessed_at = NoKey THEN @ ELSE doc.accessed_at]

\* db.commit() of the pending db.add()s: doc_id is unique.
CanCommit(table, pending) ==
    /\ \A i, j \in 1..Len(pending) :
          pending[i].doc_id = pending[j].doc_id => i = j
    /\ \A i \in 1..Len(pending) :
          ~check_document_exists_with_doc_id(table, pending[i].doc_id)

\* The rows of a commit: each pending row gets the next value of the primary
\* key.  Nothing reads id, it only tells the rows apart, so the next value is
\* the smallest one no row of the table has.
Committed(table, pending) ==
    table \cup {[pending[i] EXCEPT !.id = FreshId({r.id : r \in table}, i)] :
                    i \in 1..Len(pending)}

\* The loop of create_document_session from document i on.  table is what is
\* committed, pending the rows added and not yet committed.  failAt is the
\* document at which a statement raises (Len(docs) + 1: the last commit).
RECURSIVE SessionLoop(_, _, _, _, _)
SessionLoop(table, pending, docs, i, failAt) ==
    IF i = failAt
    THEN [table |-> table, failed |-> TRUE]
    ELSE IF i > Len(docs)
    THEN IF CanCommit(table, pending)
         THEN [table |-> Committed(table, pending), failed |-> FALSE]
         ELSE [table |-> table, failed |-> TRUE]
    ELSE IF ~check_document_exists_with_doc_id(table, docs[i].doc_id)
    THEN SessionLoop(table, Append(pending, NewRow(docs[i])), docs, i + 1, failAt)
    ELSE IF CanCommit(table, pending)
    THEN SessionLoop(
            {IF r.doc_id = docs[i].doc_id THEN UpdatedRow(r, docs[i]) ELSE r :
                r \in Committed(table, pending)},
            <<>>, docs, i + 1, failAt)
    ELSE [table |-> table, failed |-> TRUE]

\* create_document_session that adds a row for every document without
\* looking for its doc_id, on a table that takes any row.
create_document_session_unchecked(table, docs, failAt) ==
    [table |-> Committed(table, [i \in 1..Len(docs) |-> NewRow(docs[i])]),
     failed |-> FALSE]

\* create_document_session(docs): returns nothing and raises nothing; failed
\* is what it printed, not what its caller learns.
create_document_session(table, docs, failAt) ==
    SessionLoop(table, <<>>, docs, 1, failAt)

\* delete_document_metadata_by_doc_id(doc_id)
delete_document_metadata_by_doc_id(table, doc_id, fails) ==
    IF fails THEN table ELSE {r \in table : r.doc_id # doc_id}

\* ------------------------------------------------------------ the vector index

IndexEntry(doc) ==
    [doc_id |-> doc.doc_id, file_name |-> doc.file_name,
     file_size |-> doc.file_size, page |-> doc.page]

\* index.insert(doc)
IndexInsert(idx, doc) == idx \cup {IndexEntry(doc)}

\* index.delete_ref_doc(doc_id)
IndexDeleteRefDoc(idx, doc_id) == {e \in idx : e.doc_id # doc_id}

\* index.update_ref_doc(doc): what is under doc.doc_id is replaced by doc.
IndexUpdateRefDoc(idx, doc) ==
    IndexInsert(IndexDeleteRefDoc(idx, doc.doc_id), doc)

\* for doc in documents: self.index.insert(doc), the first n documents.
RECURSIVE InsertAll(_, _, _)
InsertAll(idx, docs, n) ==
    IF n = 0 THEN idx ELSE IndexInsert(InsertAll(idx, docs, n - 1), docs[n])

\* for i in range(len(updated_documents)): update_ref_doc, the first n.
RECURSIVE UpdateAll(_, _, _)
UpdateAll(idx, docs, n) ==
    IF n = 0 THEN idx ELSE IndexUpdateRefDoc(UpdateAll(idx, docs, n - 1), docs[n])

\* ------------------------------------------------------------ the data folder

\* save_file_to_data_folder(file): the file is created or overwritten.
save_file_to_data_folder(folder, f, file) ==
    [g \in DOMAIN folder \cup {f} |-> IF g = f THEN file ELSE folder[g]]

\* delete_file(filename): removes the file if it is there.
delete_file(folder, f) ==
    [g \in DOMAIN folder \ {f} |-> folder[g]]

\* ------------------------------------------------------------ agent.py

\* What an AgentDocument method leaves behind: the two stores, how the call
\* ended ("true", "false" or "raised"), and what happened inside it.
AgentResult(table, idx, result, calls, idxErr, metaErr) ==
    [meta |-> table, index |-> idx, result |-> result,
     idx_calls |-> calls, idx_error |-> idxErr, meta_error |-> metaErr]

\* The index call at which flt.idxAt makes the loop over n documents raise;
\* 0 when every call returns.
RaisesAt(idxAt, n) == IF idxAt \in 1..n THEN idxAt ELSE 0

\* AgentDocument.load_or_create_index(): attach to the vector store when its
\* table is there; otherwise read the data folder, write the metadata rows and
\* build the index from the documents.  table_exists_in_db answers False when
\* its query raises; the reader raises on a folder without files; whatever is
\* raised is printed and the method returns None.
load_or_create_index(folder, table, idx, vtable, used, keys, t, flt) ==
    IF vtable /\ ~flt.exists
    THEN AgentResult(table, idx, "from_vector_store", 0, FALSE, FALSE)
    ELSE IF DOMAIN folder = {} \/ flt.reader
    THEN AgentResult(table, idx, "None", 0, FALSE, flt.exists)
    ELSE
        LET docs == LoadFolder(folder, DOMAIN folder, used, keys, t)
            sess == create_document_session(table, docs, IF flt.meta THEN 1 ELSE 0)
        IN  IF flt.idx
            THEN AgentResult(sess.table, idx, "None", 1, TRUE,
                             sess.failed \/ flt.exists)
            ELSE AgentResult(sess.table, InsertAll(idx, docs, Len(docs)),
                             "from_documents", 1, FALSE,
                             sess.failed \/ flt.exists)

\* add_file_context_to_agent with every document inserted into the index
\* before the metadata rows are written.
add_file_context_index_first(folder, table, idx, f, used, keys, t, flt) ==
    IF f \notin DOMAIN folder
    THEN AgentResult(table, idx, "false", 0, FALSE, FALSE)
    ELSE IF flt.early = "reader"
    THEN AgentResult(table, idx, "raised", 0, FALSE, FALSE)
    ELSE
        LET docs == LoadData(f, folder[f], used, keys, t)
            sess == create_document_session(table, docs, flt.metaAt)
            k == RaisesAt(flt.idxAt, Len(docs))
        IN  IF k > 0
            THEN AgentResult(table, InsertAll(idx, docs, k - 1),
                             "raised", k, TRUE, FALSE)
            ELSE AgentResult(sess.table, InsertAll(idx, docs, Len(docs)),
                             "true", Len(docs), FALSE, sess.failed)

\* AgentDocument.add_file_context_to_agent(filepath): the metadata rows are
\* written first, then every document is inserted into the index.
add_file_context_to_agent(folder, table, idx, f, used, keys, t, flt) ==
    IF f \notin DOMAIN folder
    THEN AgentResult(table, idx, "false", 0, FALSE, FALSE)
    ELSE IF flt.early = "reader"
    THEN AgentResult(table, idx, "raised", 0, FALSE, FALSE)
    ELSE
        LET docs == LoadData(f, folder[f], used, keys, t)
            sess == create_document_session(table, docs, flt.metaAt)
            k == RaisesAt(flt.idxAt, Len(docs))
        IN  IF k > 0
            THEN AgentResult(sess.table, InsertAll(idx, docs, k - 1),
                             "raised", k, TRUE, sess.failed)
            ELSE AgentResult(sess.table, InsertAll(idx, docs, Len(docs)),
                             "true", Len(docs), FALSE, sess.failed)

\* AgentDocument.update_file_context_in_agent(filepath, doc_id): every
\* document is re-indexed under doc_id, then the metadata row is updated.
update_file_context_in_agent(folder, table, idx, f, doc_id, used, keys, t, flt) ==
    IF f \notin DOMAIN folder
    THEN AgentResult(table, idx, "false", 0, FALSE, FALSE)
    ELSE IF flt.early = "reader"
    THEN AgentResult(table, idx, "raised", 0, FALSE, FALSE)
    ELSE
        LET docs == WithDocId(LoadData(f, folder[f], used, keys, t), doc_id)
            k == RaisesAt(flt.idxAt, Len(docs))
            sess == create_document_session(table, docs, flt.metaAt)
        IN  IF k > 0
            THEN AgentResult(table, UpdateAll(idx, docs, k - 1),
                             "raised", k, TRUE, FALSE)
            ELSE AgentResult(sess.table, UpdateAll(idx, docs, Len(docs)),
                             "true", Len(docs), FALSE, sess.failed)

\* delete_file_context_in_agent with the metadata row deleted before the index
\* is called.
delete_file_context_metadata_first(table, idx, doc_id, flt) ==
    IF flt.idx
    THEN AgentResult(delete_document_metadata_by_doc_id(table, doc_id, flt.metaDel),
                     idx, "false", 1, TRUE, flt.metaDel)
    ELSE AgentResult(delete_document_metadata_by_doc_id(table, doc_id, flt.metaDel),
                     IndexDeleteRefDoc(idx, doc_id),
                     "true", 1, FALSE, flt.metaDel)

\* AgentDocument.delete_file_context_in_agent(doc_id): the index first, then
\* the metadata row, whose outcome is not looked at.
delete_file_context_in_agent(table, idx, doc_id, flt) ==
    IF flt.idx
    THEN AgentResult(table, idx, "false", 1, TRUE, FALSE)
    ELSE AgentResult(delete_document_metadata_by_doc_id(table, doc_id, flt.metaDel),
                     IndexDeleteRefDoc(idx, doc_id),
                     "true", 1, FALSE, flt.metaDel)

\* ------------------------------------------------------------ main.py

\* What a handler returns and what happened while it ran.
Reply(op, f, resp, doc_id, r, ioErr) ==
    [op |-> op, filename |-> f, resp |-> resp, doc_id |-> doc_id,
     idx_calls |-> r.idx_calls, idx_error |-> r.idx_error,
     meta_error |-> r.meta_error, io_error |-> ioErr]

\* The state a handler leaves and its reply.
Outcome(folder, table, idx, t, reply) ==
    [data |-> folder, meta |-> table, index |-> idx, now |-> t, last |-> reply]

\* The document ids in use: those of the two stores and the one the last
\* request looked up.
UsedIds ==
    {r.doc_id : r \in meta} \cup {e.doc_id : e \in index} \cup {last.doc_id}

\* No store was called.
NotCalled == AgentResult(meta, index, "none", 0, FALSE, FALSE)
\* A query of document_metadata raised.
QueryRaised == AgentResult(meta, index, "raised", 0, FALSE, TRUE)

\* The faults of one request: the early call that raises (the filename check,
\* the doc_id lookup, the file save, the reader), the statement of
\* create_document_session that raises and the index call that raises.
UploadFaults(pages) ==
    {flt \in [early : {"none", "check", "save", "reader"},
              metaAt : 0..(pages + 1), idxAt : 0..pages] :
        flt.early # "none" => flt.metaAt = 0 /\ flt.idxAt = 0}

UpdateFaults(pages) ==
    {flt \in [early : {"none", "check", "lookup", "save", "reader"},
              metaAt : 0..(pages + 1), idxAt : 0..pages] :
        flt.early # "none" => flt.metaAt = 0 /\ flt.idxAt = 0}

DeleteFaults ==
    {flt \in [lookup : BOOLEAN, idx : BOOLEAN, metaDel : BOOLEAN, remove : BOOLEAN] :
        flt.lookup => ~flt.idx /\ ~flt.metaDel /\ ~flt.remove}

\* The calls flt makes raise.
Raised(flt) ==
    (IF flt.early # "none" THEN 1 ELSE 0) + (IF flt.metaAt # 0 THEN 1 ELSE 0)
        + (IF flt.idxAt # 0 THEN 1 ELSE 0)

RaisedInDelete(flt) ==
    (IF flt.lookup THEN 1 ELSE 0) + (IF flt.idx THEN 1 ELSE 0)
        + (IF flt.metaDel THEN 1 ELSE 0) + (IF flt.remove THEN 1 ELSE 0)

\* The faults of one load_or_create_index: the query of table_exists_in_db,
\* the reader, create_document_session and VectorStoreIndex.from_documents.
LoadFaults ==
    {flt \in [exists : BOOLEAN, reader : BOOLEAN, meta : BOOLEAN, idx : BOOLEAN] :
        flt.reader => ~flt.meta /\ ~flt.idx}

RaisedInLoad(flt) ==
    (IF flt.exists THEN 1 ELSE 0) + (IF flt.reader THEN 1 ELSE 0)
        + (IF flt.meta THEN 1 ELSE 0) + (IF flt.idx THEN 1 ELSE 0)

\* What a handler that does not construct an agent leaves.
Kept(reply) ==
    [agent |-> agent_instance, vectorTable |-> vectorTable,
     out |-> Outcome(data, meta, index, now, reply)]

\* agent_instance = AgentDocument(task_type=task_type): the constructor calls
\* load_or_create_index, and the first insert into the vector store creates
\* its table.
Constructed(task_type, op, resp, flt) ==
    LET r == load_or_create_index(data, meta, index, vectorTable, UsedIds,
                                  readerKeys, now, flt)
    IN  [agent |-> AgentDocument(task_type, r.result),
         vectorTable |-> vectorTable \/ r.result = "from_documents",
         out |-> Outcome(data, r.meta, r.index, now,
                         Reply(op, "", resp, None, r,
                               r.result = "None" /\ ~r.idx_error))]

\* lifespan(app), up to its yield
lifespan(flt) == Constructed("default", "lifespan", Started, flt)

\* POST /set-task-type/
set_task_type(task_type, flt) ==
    IF task_type \notin TaskTypes
    THEN Kept(Reply("set_task_type", "", TaskTypeInvalid, None, NotCalled, FALSE))
    ELSE Constructed(task_type, "set_task_type", TaskTypeSet, flt)

\* POST /ask/: a request of another task type constructs the agent again
\* before the agent runs; runs tells whether the run returns or raises.
ask_question(task_type, runs, flt) ==
    LET resp == IF runs THEN AskOk ELSE AskFailed
    IN  IF task_type # agent_instance.task_type
        THEN Constructed(task_type, "ask", resp, flt)
        ELSE Kept(Reply("ask", "", resp, None, NotCalled, FALSE))

\* POST /upload/
upload_file(f, pages, keys, flt) ==
    IF flt.early = "check"
    THEN Outcome(data, meta, index, now,
                 Reply("upload", f, UploadError, None, QueryRaised, FALSE))
    ELSE IF check_document_exists_with_filename(meta, f)
    THEN Outcome(data, meta, index, now,
                 Reply("upload", f, UploadExists, None, NotCalled, FALSE))
    ELSE IF flt.early = "save"
    THEN Outcome(data, meta, index, now,
                 Reply("upload", f, WriteFailed, None, NotCalled, TRUE))
    ELSE
        LET folder == save_file_to_data_folder(data, f,
                          [size |-> now, pages |-> pages])
            r == add_file_context_to_agent(folder, meta, index, f, UsedIds,
                                           keys, now, flt)
        IN  Outcome(folder, r.meta, r.index, now + 1,
                    Reply("upload", f,
                          CASE r.result = "true" -> UploadOk
                            [] r.result = "false" -> UploadNotIndexed
                            [] OTHER -> UploadError,
                          None, r, flt.early = "reader"))

\* update_file with the file saved before the filename is looked for.
update_file_save_first(f, doc_id, pages, keys, flt) ==
    LET folder == save_file_to_data_folder(data, f,
                      [size |-> now, pages |-> pages])
        r == update_file_context_in_agent(folder, meta, index, f, doc_id,
                                          UsedIds, keys, now, flt)
    IN  IF ~check_document_exists_with_filename(meta, f)
        THEN Outcome(folder, meta, index, now + 1,
                     Reply("update", f, UpdateMissing, None, NotCalled, FALSE))
        ELSE Outcome(folder, r.meta, r.index, now + 1,
                     Reply("update", f,
                           CASE r.result = "true" -> UpdateOk
                             [] r.result = "false" -> UpdateNotIndexed
                             [] OTHER -> UpdateError,
                           doc_id, r, flt.early = "reader"))

\* PUT /update/
update_file(f, doc_id, pages, keys, flt) ==
    IF flt.early = "check"
    THEN Outcome(data, meta, index, now,
                 Reply("update", f, UpdateError, None, QueryRaised, FALSE))
    ELSE IF ~check_document_exists_with_filename(meta, f)
    THEN Outcome(data, meta, index, now,
                 Reply("update", f, UpdateMissing, None, NotCalled, FALSE))
    ELSE IF flt.early = "lookup"
    THEN Outcome(data, meta, index, now,
                 Reply("update", f, UpdateError, None, QueryRaised, FALSE))
    ELSE IF doc_id = None
    THEN Outcome(data, meta, index, now,
                 Reply("update", f, UpdateNoId, None, NotCalled, FALSE))
    ELSE IF flt.early = "save"
    THEN Outcome(data, meta, index, now,
                 Reply("update", f, WriteFailed, doc_id, NotCalled, TRUE))
    ELSE
        LET folder == save_file_to_data_folder(data, f,
                          [size |-> now, pages |-> pages])
            r == update_file_context_in_agent(folder, meta, index, f, doc_id,
                                              UsedIds, keys, now, flt)
        IN  Outcome(folder, r.meta, r.index, now + 1,
                    Reply("update", f,
                          CASE r.result = "true" -> UpdateOk
                            [] r.result = "false" -> UpdateNotIndexed
                            [] OTHER -> UpdateError,
                          doc_id, r, flt.early = "reader"))

\* DELETE /delete/{filename}
delete_file_endpoint(f, doc_id, flt) ==
    IF flt.lookup
    THEN Outcome(data, meta, index, now,
                 Reply("delete", f, DeleteError, None, QueryRaised, FALSE))
    ELSE IF doc_id = None
    THEN Outcome(data, meta, index, now,
                 Reply("delete", f, DeleteNoId, None, NotCalled, FALSE))
    ELSE
        LET r == delete_file_context_in_agent(meta, index, doc_id, flt)
        IN  IF r.result = "false"
            THEN Outcome(data, r.meta, r.index, now,
                         Reply("delete", f, DeleteIndexFailed, doc_id, r, FALSE))
            ELSE IF flt.remove
            THEN Outcome(data, r.meta, r.index, now,
                         Reply("delete", f, DeleteError, doc_id, r, TRUE))
            ELSE Outcome(delete_file(data, f), r.meta, r.index, now,
                         Reply("delete", f, DeleteOk, doc_id, r, FALSE))

\* GET /files/: the filename column of every row; how often each filename is
\* listed.
list_files(table) ==
    [f \in {r.filename : r \in table} |->
        Cardinality({r \in table : r.filename = f})]

\* A worker between two requests, before its first one.
Idle ==
    [pc |-> "idle", op |-> "none", filename |-> "",
     doc_id |-> None, docs |-> <<>>, k |-> 0, resp |-> "", rival |-> FALSE]

\* A worker that has returned resp: its local variables are gone.
Returned(w, resp) ==
    [Idle EXCEPT !.op = w.op, !.filename = w.filename, !.resp = resp,
                 !.rival = w.rival]

\* ------------------------------------------------------------ the state machine

ApplyStores(out) ==
    /\ UNCHANGED <<readerKeys, workers>>
    /\ data' = out.data
    /\ meta' = out.meta
    /\ index' = out.index
    /\ now' = out.now
    /\ last' = out.last

\* upload_file, update_file and delete_file_endpoint leave agent_instance as
\* it is, and an agent that has an index has the table of the vector store.
Apply(out) ==
    /\ UNCHANGED <<agent_instance, vectorTable>>
    /\ ApplyStores(out)

ApplyAgent(c) ==
    /\ agent_instance' = c.agent
    /\ vectorTable' = c.vectorTable
    /\ ApplyStores(c.out)

\* After lifespan: the table exists and is empty, the index is attached and
\* holds nothing, the data folder is empty.
Init ==
    /\ workers = [p \in Procs |-> Idle]
    /\ agent_instance = AgentDocument("default", "from_vector_store")
    /\ vectorTable = TRUE
    /\ readerKeys \in SUBSET OptionalKeys
    /\ data = [g \in {} |-> [size |-> 0, pages |-> 0]]
    /\ meta = {}
    /\ index = {}
    /\ now = 1
    /\ faults = 0
    /\ last = Reply("none", "", "", None, NotCalled, FALSE)

\* Requests are served between lifespan's yield and the shutdown.
Served == agent_instance # NoAgent

\* self.index is None: the first call on it raises AttributeError, which is
\* none of the faults of the stores.
IndexIsNone == agent_instance.index = "None"

RaisedByStores(flt) ==
    Raised(flt) - (IF IndexIsNone /\ flt.idxAt # 0 THEN 1 ELSE 0)

RaisedByStoresInDelete(flt) ==
    RaisedInDelete(flt) - (IF IndexIsNone /\ flt.idx THEN 1 ELSE 0)

\* A request that saves a file takes a tick of the clock.  The keys of the reader's
\* metadata are the library's and do not change while the process runs.
Upload ==
    \E f \in Filenames, pages \in 1..MaxDocs :
        \E flt \in UploadFaults(pages) :
            /\ Served
            /\ now < MaxClock
            /\ IndexIsNone => flt.idxAt = (IF flt.early = "none" THEN 1 ELSE 0)
            /\ faults + RaisedByStores(flt) <= MaxFaults
            /\ faults' = faults + RaisedByStores(flt)
            /\ Apply(upload_file(f, pages, readerKeys, flt))

Update ==
    \E f \in Filenames, pages \in 1..MaxDocs :
        \E flt \in UpdateFaults(pages), doc_id \in get_doc_id_from_filename(meta, f) :
            /\ Served
            /\ now < MaxClock
            /\ IndexIsNone => flt.idxAt = (IF flt.early = "none" THEN 1 ELSE 0)
            /\ faults + RaisedByStores(flt) <= MaxFaults
            /\ faults' = faults + RaisedByStores(flt)
            /\ Apply(update_file(f, doc_id, pages, readerKeys, flt))

Delete ==
    \E f \in Filenames, flt \in DeleteFaults :
        \E doc_id \in get_doc_id_from_filename(meta, f) :
            /\ Served
            /\ IndexIsNone => flt.idx = (~flt.lookup)
            /\ faults + RaisedByStoresInDelete(flt) <= MaxFaults
            /\ faults' = faults + RaisedByStoresInDelete(flt)
            /\ Apply(delete_file_endpoint(f, doc_id, flt))

Lifespan ==
    \E flt \in LoadFaults :
        /\ ~Served
        /\ faults + RaisedInLoad(flt) <= MaxFaults
        /\ faults' = faults + RaisedInLoad(flt)
        /\ ApplyAgent(lifespan(flt))

\* The process ends; the database and the data folder stay.
Shutdown ==
    /\ Served
    /\ agent_instance' = NoAgent
    /\ last' = Reply("shutdown", "", ShutDown, None, NotCalled, FALSE)
    /\ UNCHANGED <<workers, vectorTable, readerKeys, data, meta, index, now, faults>>

SetTaskType ==
    \E task_type \in TaskTypes \cup {InvalidTaskType}, flt \in LoadFaults :
        /\ Served
        /\ faults + RaisedInLoad(flt) <= MaxFaults
        /\ faults' = faults + RaisedInLoad(flt)
        /\ ApplyAgent(set_task_type(task_type, flt))

Ask ==
    \E task_type \in TaskTypes, runs \in BOOLEAN, flt \in LoadFaults :
        /\ Served
        /\ faults + RaisedInLoad(flt) <= MaxFaults
        /\ faults' = faults + RaisedInLoad(flt)
        /\ ApplyAgent(ask_question(task_type, runs, flt))

Next == Upload \/ Update \/ Delete

Spec == Init /\ [][Next]_vars

\* The files the data folder holds before the first start; they were written
\* before the clock of the requests started.
FirstFolders ==
    UNION {[S -> [size : {0}, pages : 1..MaxDocs]] : S \in SUBSET Filenames}

\* The first start: lifespan has not run, init_db has created an empty
\* document_metadata, the vector store has no table.  The reader's documents
\* carry neither optional key, as the library's default file metadata does
\* (it has last_modified_date and last_accessed_date).
InitBoot ==
    /\ workers = [p \in Procs |-> Idle]
    /\ agent_instance = NoAgent
    /\ vectorTable = FALSE
    /\ readerKeys = {}
    /\ data \in FirstFolders
    /\ meta = {}
    /\ index = {}
    /\ now = 1
    /\ faults = 0
    /\ last = Reply("none", "", "", None, NotCalled, FALSE)

NextBoot ==
    Lifespan \/ Shutdown \/ SetTaskType \/ Ask \/ Upload \/ Update \/ Delete

SpecBoot == InitBoot /\ [][NextBoot]_vars

\* ------------------------------------------------- several worker processes
\* Served by several worker processes, every process has its own event loop
\* and its own agent, attached to the same vector store, and all of them use
\* the same database and the same data folder.  A handler still runs without
\* interruption inside its process, but between two of its calls into a store
\* or the file system another process may make a call of its own: a step is
\* one such call.  No call raises here.

\* The document ids in use, those the workers hold included.
HeldIds ==
    UsedIds \cup {workers[p].doc_id : p \in Procs}
            \cup UNION {{workers[p].docs[i].doc_id : i \in 1..Len(workers[p].docs)} :
                            p \in Procs}

Step(p, w, folder, table, idx, t) ==
    /\ workers' = [workers EXCEPT ![p] = w]
    /\ data' = folder
    /\ meta' = table
    /\ index' = idx
    /\ now' = t
    /\ UNCHANGED <<agent_instance, vectorTable, readerKeys, faults, last>>

\* upload_file: check_document_exists_with_filename.  rival: another upload
\* of the same filename has passed this check and has not returned.
UploadChecks(p) ==
    \E f \in Filenames :
        LET w == [Idle EXCEPT !.op = "upload", !.filename = f]
        IN  /\ workers[p].pc = "idle"
            /\ IF check_document_exists_with_filename(meta, f)
               THEN Step(p, Returned(w, UploadExists), data, meta, index, now)
               ELSE Step(p, [w EXCEPT !.pc = "save",
                                      !.rival = \E q \in Procs \ {p} :
                                                    /\ workers[q].op = "upload"
                                                    /\ workers[q].filename = f
                                                    /\ workers[q].pc # "idle"],
                         data, meta, index, now)

\* update_file: check_document_exists_with_filename
UpdateChecks(p) ==
    \E f \in Filenames :
        LET w == [Idle EXCEPT !.op = "update", !.filename = f]
        IN  /\ workers[p].pc = "idle"
            /\ IF check_document_exists_with_filename(meta, f)
               THEN Step(p, [w EXCEPT !.pc = "lookup"], data, meta, index, now)
               ELSE Step(p, Returned(w, UpdateMissing), data, meta, index, now)

\* update_file: get_doc_id_from_filename
LooksUp(p) ==
    LET w == workers[p]
    IN  /\ w.pc = "lookup"
        /\ \E doc_id \in get_doc_id_from_filename(meta, w.filename) :
              IF doc_id = None
              THEN Step(p, Returned(w, UpdateNoId), data, meta, index, now)
              ELSE Step(p, [w EXCEPT !.pc = "save", !.doc_id = doc_id],
                        data, meta, index, now)

\* upload_file, update_file: save_file_to_data_folder
Saves(p) ==
    LET w == workers[p]
    IN  /\ w.pc = "save"
        /\ now < MaxClock
        /\ \E pages \in 1..MaxDocs :
              Step(p, [w EXCEPT !.pc = "load"],
                   save_file_to_data_folder(data, w.filename,
                       [size |-> now, pages |-> pages]),
                   meta, index, now + 1)

\* add_file_context_to_agent, update_file_context_in_agent: filepath.exists()
\* and the reader's load_data(), which reads the file as it is now.
Loads(p) ==
    LET w == workers[p]
        f == w.filename
        docs == LoadData(f, data[f], HeldIds, readerKeys, data[f].size)
    IN  /\ w.pc = "load"
        /\ IF f \notin DOMAIN data
           THEN Step(p, Returned(w, IF w.op = "upload" THEN UploadNotIndexed
                                    ELSE UpdateNotIndexed),
                     data, meta, index, now)
           ELSE IF w.op = "upload"
           THEN Step(p, [w EXCEPT !.pc = "session", !.docs = docs],
                     data, meta, index, now)
           ELSE Step(p, [w EXCEPT !.pc = "reindex", !.k = 1,
                                  !.docs = WithDocId(docs, w.doc_id)],
                     data, meta, index, now)

\* add_file_context_to_agent, update_file_context_in_agent:
\* create_document_session; the update returns after it.
WritesMetadata(p) ==
    LET w == workers[p]
        table == create_document_session(meta, w.docs, 0).table
    IN  /\ w.pc = "session"
        /\ IF w.op = "upload"
           THEN Step(p, [w EXCEPT !.pc = "insert", !.k = 1], data, table, index, now)
           ELSE Step(p, Returned(w, UpdateOk), data, table, index, now)

\* add_file_context_to_agent: self.index.insert(doc); the upload returns
\* after the last one.
Inserts(p) ==
    LET w == workers[p]
    IN  /\ w.pc = "insert"
        /\ Step(p, IF w.k = Len(w.docs) THEN Returned(w, UploadOk)
                    ELSE [w EXCEPT !.k = w.k + 1],
                data, meta, IndexInsert(index, w.docs[w.k]), now)

\* update_file_context_in_agent: self.index.update_ref_doc(doc)
Reindexes(p) ==
    LET w == workers[p]
    IN  /\ w.pc = "reindex"
        /\ Step(p, IF w.k = Len(w.docs) THEN [w EXCEPT !.pc = "session"]
                    ELSE [w EXCEPT !.k = w.k + 1],
                data, meta, IndexUpdateRefDoc(index, w.docs[w.k]), now)

\* delete_file_endpoint: get_doc_id_from_filename
DeleteLooksUp(p) ==
    \E f \in Filenames :
        LET w == [Idle EXCEPT !.op = "delete", !.filename = f]
        IN  /\ workers[p].pc = "idle"
            /\ \E doc_id \in get_doc_id_from_filename(meta, f) :
                  IF doc_id = None
                  THEN Step(p, Returned(w, DeleteNoId), data, meta, index, now)
                  ELSE Step(p, [w EXCEPT !.pc = "unindex", !.doc_id = doc_id],
                            data, meta, index, now)

\* delete_file_context_in_agent: self.index.delete_ref_doc(doc_id)
DeletesFromIndex(p) ==
    LET w == workers[p]
    IN  /\ w.pc = "unindex"
        /\ Step(p, [w EXCEPT !.pc = "unrow"],
                data, meta, IndexDeleteRefDoc(index, w.doc_id), now)

\* delete_file_context_in_agent: delete_document_metadata_by_doc_id(doc_id)
DeletesMetadata(p) ==
    LET w == workers[p]
    IN  /\ w.pc = "unrow"
        /\ Step(p, [w EXCEPT !.pc = "remove"], data,
                delete_document_metadata_by_doc_id(meta, w.doc_id, FALSE),
                index, now)

\* delete_file_endpoint: delete_file(filename), and the return
RemovesFile(p) ==
    LET w == workers[p]
    IN  /\ w.pc = "remove"
        /\ Step(p, Returned(w, DeleteOk), delete_file(data, w.filename),
                meta, index, now)

NextWorkers ==
    \E p \in Procs :
        \/ UploadChecks(p) \/ UpdateChecks(p) \/ LooksUp(p) \/ Saves(p)
        \/ Loads(p) \/ WritesMetadata(p) \/ Inserts(p) \/ Reindexes(p)
        \/ DeleteLooksUp(p) \/ DeletesFromIndex(p) \/ DeletesMetadata(p)
        \/ RemovesFile(p)

SpecWorkers == Init /\ [][NextWorkers]_vars

\* ------------------------------------------------------------ float
\* Python's float is the IEEE-754 double: Precision significant bits, every
\* result rounded to the nearest double, ties to the even one.  The scores are
\* never negative here and far from the ends of the exponent range, so a float
\* is m * 2^e with 2^(Precision-1) <= m < 2^Precision, or Zero.  m and the
\* numbers of the arithmetic are written in base 2^LimbBits, the least
\* significant digit first.

Precision == 53
LimbBits == 13
\* The bits below the last kept one with which a decimal number is divided out.
GuardBits == 64

\* The same sequence, every element computed.
Computed(s) == <<>> \o s

Digit(t, k) == IF k \in 1..Len(t) THEN t[k] ELSE 0

\* Bit i of t; bit 0 is the least significant one.
Bit(t, i) == (Digit(t, i \div LimbBits + 1) \div 2^(i % LimbBits)) % 2

BitLength(t) ==
    LET used == {k \in 1..Len(t) : t[k] # 0}
    IN  IF used = {} THEN 0
        ELSE LET top == CHOOSE k \in used : \A j \in used : j <= k
             IN  LimbBits * (top - 1)
                     + (CHOOSE l \in 1..LimbBits : 2^(l - 1) <= t[top] /\ t[top] < 2^l)

\* floor(t / 2^s) in n digits
ShiftRight(t, s, n) ==
    LET q == s \div LimbBits
        r == s % LimbBits
    IN  Computed([k \in 1..n |->
            Digit(t, k + q) \div 2^r + (Digit(t, k + q + 1) % 2^r) * 2^(LimbBits - r)])

\* t * 2^s in n digits
ShiftLeft(t, s, n) ==
    LET q == s \div LimbBits
        r == s % LimbBits
    IN  Computed([k \in 1..n |->
            (Digit(t, k - q) % 2^(LimbBits - r)) * 2^r
                + Digit(t, k - q - 1) \div 2^(LimbBits - r)])

\* t has a bit set below bit s.
LowBits(t, s) ==
    \E k \in 1..Len(t) :
        \/ k <= s \div LimbBits /\ t[k] # 0
        \/ k = s \div LimbBits + 1 /\ t[k] % 2^(s % LimbBits) # 0

\* The digits of the number whose places hold t[k], t[k+1], ..., the carries
\* moved up.
RECURSIVE Carried(_, _, _)
Carried(t, k, carry) ==
    IF k > Len(t) THEN <<>>
    ELSE <<(t[k] + carry) % 2^LimbBits>>
             \o Carried(t, k + 1, (t[k] + carry) \div 2^LimbBits)

\* a + b + cin in n digits
Sum(a, b, cin, n) ==
    Carried(Computed([k \in 1..n |-> Digit(a, k) + Digit(b, k)]), 1, cin)

RECURSIVE Column(_, _, _, _)
Column(a, b, k, i) ==
    IF i > Len(a) THEN 0 ELSE a[i] * Digit(b, k - i + 1) + Column(a, b, k, i + 1)

\* a * b
Product(a, b) ==
    Carried(Computed([k \in 1..(Len(a) + Len(b)) |-> Column(a, b, k, 1)]), 1, 0)

\* floor(t / d) and the remainder, for a small d: the digits from k down.
RECURSIVE Divided(_, _, _, _)
Divided(t, d, k, rem) ==
    IF k = 0 THEN [digits |-> <<>>, rem |-> rem]
    ELSE LET r == rem * 2^LimbBits + t[k]
             lower == Divided(t, d, k - 1, r % d)
         IN  [digits |-> Append(lower.digits, r \div d), rem |-> lower.rem]

MantissaDigits == (Precision + LimbBits - 1) \div LimbBits

\* 0.0
Zero == [m |-> Computed([k \in 1..MantissaDigits |-> 0]), e |-> 0]

\* The float of t * 2^e (of a little more if inexact).
Round(t, e, inexact) ==
    LET len == BitLength(t)
        s == len - Precision
    IN  IF len = 0 THEN Zero
        ELSE IF s <= 0 THEN [m |-> ShiftLeft(t, 0 - s, MantissaDigits), e |-> e + s]
        ELSE LET keep == ShiftRight(t, s, MantissaDigits)
                 rest == inexact \/ LowBits(t, s - 1)
                 up == Bit(t, s - 1) = 1 /\ (rest \/ keep[1] % 2 = 1)
                 r == Sum(keep, <<>>, IF up THEN 1 ELSE 0, MantissaDigits)
             IN  IF BitLength(r) > Precision
                 THEN [m |-> ShiftRight(r, 1, MantissaDigits), e |-> e + s + 1]
                 ELSE [m |-> r, e |-> e + s]

\* The float a decimal number of k tenths is read as (a literal of the source,
\* a number of a JSON text).
FloatOfTenths(k) ==
    LET n == GuardBits \div LimbBits + 2
        q == Divided(ShiftLeft(<<k>>, GuardBits, n), 10, n, 0)
    IN  Round(q.digits, 0 - GuardBits, q.rem # 0)

\* a * b
FloatMul(a, b) == Round(Product(a.m, b.m), a.e + b.e, FALSE)

\* a + b
FloatAdd(a, b) ==
    IF a = Zero THEN b
    ELSE IF b = Zero THEN a
    ELSE LET e == IF a.e < b.e THEN a.e ELSE b.e
             n == (Precision + (a.e - e) + (b.e - e)) \div LimbBits + 2
         IN  Round(Sum(ShiftLeft(a.m, a.e - e, n), ShiftLeft(b.m, b.e - e, n), 0, n),
                   e, FALSE)

\* a >= b
FloatGE(a, b) ==
    IF b = Zero THEN TRUE
    ELSE IF a = Zero THEN FALSE
    ELSE IF a.e # b.e THEN a.e > b.e
    ELSE LET d == {k \in 1..MantissaDigits : a.m[k] # b.m[k]}
         IN  d = {} \/ LET top == CHOOSE k \in d : \A j \in d : j <= k
                       IN  a.m[top] > b.m[top]

\* ------------------------------------------------------------ context_evaluator.py

\* A value json.loads returns for "score": a number (in tenths), null, or a
\* string that is no number.
JsonNumber(k) == [type |-> "number", tenths |-> k]
JsonNull == [type |-> "null", tenths |-> 0]
JsonString == [type |-> "string", tenths |-> 0]

\* float(v)
float(v) == FloatOfTenths(v.tenths)
\* float(None) raises TypeError, float("high") raises ValueError.
FloatRaises(v) == v.type # "number"

\* The keys of the JSON object the two prompts ask for.
ReplyKeys == {"score", "explanation", "key_points", "missing_aspects"}

\* A dict with the given keys; the list of anything else.
Dict(keys, score) ==
    [kind |-> "dict", keys |-> keys,
     score |-> IF "score" \in keys THEN score ELSE JsonNull,
     explanation |-> IF "explanation" \in keys THEN "because" ELSE "",
     key_points |-> IF "key_points" \in keys THEN <<"point">> ELSE <<>>,
     missing_aspects |-> IF "missing_aspects" \in keys THEN <<"aspect">> ELSE <<>>]
JsonList == [Dict({}, JsonNull) EXCEPT !.kind = "list"]

\* d.get(key, default)
get(d, key, default) == IF key \in d.keys THEN d[key] ELSE default

\* What llm.acomplete does with one prompt.  It raises, or it returns a text:
\*   "object"       the JSON object asked for and nothing else,
\*   "fenced"       the object inside a ``` block, text around it,
\*   "embedded"     the object with text around it,
\*   "two_objects"  two objects with text between them,
\*   "malformed"    braces around what is no JSON,
\*   "prose"        a text without braces that is no JSON,
\*   "array"        a JSON array of numbers and nothing else.
\* The object is complete with any score, or holds some of its keys.
Replies ==
    [form : {"object"},
     json : {Dict(ReplyKeys, s) : s \in {JsonNumber(k) : k \in 0..MaxScore}
                                        \cup {JsonNull, JsonString}}
                \cup {Dict(keys, JsonNumber(5)) :
                        keys \in {{}, {"score"}, {"explanation"}}}]
    \cup [form : {"fenced", "embedded"}, json : {Dict(ReplyKeys, JsonNumber(5))}]
    \cup [form : {"raises", "two_objects", "malformed", "prose", "array"},
          json : {Dict({}, JsonNull)}]

\* _extract_json(text): the text of the first fenced object, else the text from
\* the first brace to the last one, else the whole text, goes to json.loads;
\* a JSONDecodeError gives the empty dict.
_extract_json(reply) ==
    CASE reply.form \in {"object", "fenced", "embedded"} -> reply.json
      [] reply.form \in {"two_objects", "malformed", "prose"} -> Dict({}, JsonNull)
      [] reply.form = "array" -> JsonList

\* A call that returned value, a call that raised.
Returns(value) == [raised |-> FALSE, value |-> value]
Raises == [raised |-> TRUE, value |-> ""]

\* f"Evaluation error: {str(e)}"
EvaluationError == "Evaluation error"

\* The try block of evaluate_relevance: acomplete raises, or the parsed value
\* has no get (it is no dict), or float() raises, or the dict is returned.
RelevanceTried(reply) ==
    LET result == _extract_json(reply)
        score == get(result, "score", JsonNumber(0))
    IN  IF reply.form = "raises" \/ result.kind # "dict" \/ FloatRaises(score)
        THEN Raises
        ELSE Returns([relevance_score |-> float(score),
                      explanation |-> get(result, "explanation", ""),
                      key_points |-> get(result, "key_points", <<>>)])

\* evaluate_relevance without its except branch
evaluate_relevance_uncaught(reply) == RelevanceTried(reply)

evaluate_relevance(reply) ==
    IF RelevanceTried(reply).raised
    THEN Returns([relevance_score |-> Zero, explanation |-> EvaluationError,
                  key_points |-> <<>>])
    ELSE RelevanceTried(reply)

CompletenessTried(reply) ==
    LET result == _extract_json(reply)
        score == get(result, "score", JsonNumber(0))
    IN  IF reply.form = "raises" \/ result.kind # "dict" \/ FloatRaises(score)
        THEN Raises
        ELSE Returns([completeness_score |-> float(score),
                      explanation |-> get(result, "explanation", ""),
                      missing_aspects |-> get(result, "missing_aspects", <<>>)])

evaluate_completeness(reply) ==
    IF CompletenessTried(reply).raised
    THEN Returns([completeness_score |-> Zero, explanation |-> EvaluationError,
                  missing_aspects |-> <<>>])
    ELSE CompletenessTried(reply)

High == "High quality context - suitable for use"
Moderate == "Moderate quality - may need additional context"
Low == "Low quality - consider refining query or adding more sources"
Poor == "Poor quality - context may not be relevant or complete"

_get_recommendation(score) ==
    IF FloatGE(score, FloatOfTenths(8)) THEN High
    ELSE IF FloatGE(score, FloatOfTenths(6)) THEN Moderate
    ELSE IF FloatGE(score, FloatOfTenths(4)) THEN Low
    ELSE Poor

\* evaluate_quality, once both evaluations have returned
evaluate_quality(relevance, completeness) ==
    LET overall_score ==
            FloatAdd(FloatMul(relevance.relevance_score, FloatOfTenths(6)),
                     FloatMul(completeness.completeness_score, FloatOfTenths(4)))
    IN  [overall_quality_score |-> overall_score,
         relevance |-> relevance,
         completeness |-> completeness,
         recommendation |-> _get_recommendation(overall_score)]

\* ------------------------------------------------------------ /ask/ step by step
\* ask_question and ask_with_evaluation await the agent's run and, through
\* get_response_with_evaluation and evaluate_quality, one completion for the
\* relevance and one for the completeness.  A step runs from one await to the
\* next; what the awaited call gives is the input of the step.

\* The worker processes that take the questions.
AskProcs == {"w1"}

\* The messages of the requests.
Messages == {"q1", "q2"}

\* What agent.run returns, and its str().
RunOutputs == {[text |-> "r1"], [text |-> "r2"]}
str(response) == response.text

NoRelevance == [relevance_score |-> Zero, explanation |-> "", key_points |-> <<>>]

\* The JSON object a handler returns: its keys and their values.
Body(keys, response, evaluation, status, error) ==
    [keys |-> keys, response |-> response, evaluation |-> evaluation,
     status |-> status, error |-> error]

NoEvaluation ==
    [overall_quality_score |-> Zero, relevance |-> NoRelevance,
     completeness |-> [completeness_score |-> Zero, explanation |-> "",
                       missing_aspects |-> <<>>],
     recommendation |-> ""]

\* {"error": str(e), "status": "failed"}
Failed(error) == Body({"error", "status"}, "", NoEvaluation, AskFailed, error)

\* A worker before its first question.  run_calls are the arguments agent.run
\* was called with, output is what it returned, completions are the replies of
\* the completion service, body is what the handler returned.
AskIdle ==
    [pc |-> "idle", op |-> "none", message |-> "", evaluate_context |-> FALSE,
     run_calls |-> <<>>, output |-> [text |-> ""], completions |-> <<>>,
     relevance |-> NoRelevance, body |-> Body({}, "", NoEvaluation, "", "")]

AskReturned(w, body) == [w EXCEPT !.pc = "idle", !.body = body]

AskStep(p, w) ==
    /\ workers' = [workers EXCEPT ![p] = w]
    /\ UNCHANGED <<readerKeys, last>>

\* ask_question, down to its await: a request of another task type constructs
\* the agent again, and the agent of the global is the one that runs.
AskStarts(p) ==
    \E message \in Messages, task_type \in TaskTypes, evaluate_context \in BOOLEAN,
       flt \in LoadFaults :
        LET w == [AskIdle EXCEPT !.op = "ask", !.message = message,
                                 !.evaluate_context = evaluate_context]
            c == ask_question(task_type, TRUE, flt)
        IN  /\ workers[p].pc = "idle"
            /\ IF task_type = agent_instance.task_type
               THEN RaisedInLoad(flt) = 0
               ELSE faults + RaisedInLoad(flt) <= MaxFaults
            /\ faults' = faults + RaisedInLoad(flt)
            /\ agent_instance' = c.agent
            /\ vectorTable' = c.vectorTable
            /\ data' = c.out.data
            /\ meta' = c.out.meta
            /\ index' = c.out.index
            /\ now' = c.out.now
            /\ AskStep(p, IF Served THEN [w EXCEPT !.pc = "run"]
                          ELSE AskReturned(w, Failed("Agent not initialized")))

\* ask_with_evaluation, down to the await of get_response_with_evaluation
AskWithEvaluationStarts(p) ==
    \E message \in Messages :
        LET w == [AskIdle EXCEPT !.op = "ask_with_evaluation", !.message = message,
                                 !.evaluate_context = TRUE]
        IN  /\ workers[p].pc = "idle"
            /\ AskStep(p, IF Served THEN [w EXCEPT !.pc = "run"]
                          ELSE AskReturned(w, Failed("Agent not initialized")))
            /\ UNCHANGED <<agent_instance, vectorTable, data, meta, index, now, faults>>

\* Runs with a second call of agent.run: the handler runs the agent itself and
\* then calls get_response_with_evaluation, which runs it again.
RunsTwice(p) ==
    \E runs \in BOOLEAN, response \in RunOutputs :
        LET w == [workers[p] EXCEPT
                      !.run_calls = IF workers[p].evaluate_context
                                    THEN @ \o <<workers[p].message, workers[p].message>>
                                    ELSE Append(@, workers[p].message)]
        IN  /\ w.pc = "run"
            /\ AskStep(p, IF ~runs THEN AskReturned(w, Failed("error"))
                          ELSE IF w.evaluate_context
                          THEN [w EXCEPT !.pc = "relevance", !.output = response]
                          ELSE AskReturned([w EXCEPT !.output = response],
                                   Body({"response", "status"}, str(response),
                                        NoEvaluation, AskOk, "")))
            /\ UNCHANGED <<agent_instance, vectorTable, data, meta, index, now, faults>>

\* The agent's run returns or raises.  ask_question without evaluate_context
\* returns its str(); get_response_with_evaluation goes on to evaluate_quality,
\* which awaits evaluate_relevance.
Runs(p) ==
    \E runs \in BOOLEAN, response \in RunOutputs :
        LET w == [workers[p] EXCEPT !.run_calls = Append(@, workers[p].message)]
        IN  /\ w.pc = "run"
            /\ AskStep(p, IF ~runs THEN AskReturned(w, Failed("error"))
                          ELSE IF w.evaluate_context
                          THEN [w EXCEPT !.pc = "relevance", !.output = response]
                          ELSE AskReturned([w EXCEPT !.output = response],
                                   Body({"response", "status"}, str(response),
                                        NoEvaluation, AskOk, "")))
            /\ UNCHANGED <<agent_instance, vectorTable, data, meta, index, now, faults>>

\* evaluate_relevance gets its completion; evaluate_quality then awaits
\* evaluate_completeness.
ScoresRelevance(p) ==
    \E reply \in Replies :
        LET w == [workers[p] EXCEPT !.completions = Append(@, reply)]
            relevance == evaluate_relevance(reply)
        IN  /\ w.pc = "relevance"
            /\ AskStep(p, IF relevance.raised THEN AskReturned(w, Failed("error"))
                          ELSE [w EXCEPT !.pc = "completeness",
                                         !.relevance = relevance.value])
            /\ UNCHANGED <<agent_instance, vectorTable, data, meta, index, now, faults>>

\* evaluate_completeness gets its completion; evaluate_quality returns the
\* report, get_response_with_evaluation the response and the report, and the
\* handler its body.
ScoresCompleteness(p) ==
    \E reply \in Replies :
        LET w == [workers[p] EXCEPT !.completions = Append(@, reply)]
            completeness == evaluate_completeness(reply)
        IN  /\ w.pc = "completeness"
            /\ AskStep(p, IF completeness.raised THEN AskReturned(w, Failed("error"))
                          ELSE AskReturned(w,
                                   Body({"response", "evaluation", "status"},
                                        str(w.output),
                                        evaluate_quality(w.relevance, completeness.value),
                                        AskOk, "")))
            /\ UNCHANGED <<agent_instance, vectorTable, data, meta, index, now, faults>>

\* The process after lifespan, before its first question.
InitAsk ==
    /\ workers = [p \in Procs |-> AskIdle]
    /\ agent_instance = AgentDocument("default", "from_vector_store")
    /\ vectorTable = TRUE
    /\ readerKeys = {}
    /\ data = [g \in {} |-> [size |-> 0, pages |-> 0]]
    /\ meta = {}
    /\ index = {}
    /\ now = 1
    /\ faults = 0
    /\ last = Reply("none", "", "", None, NotCalled, FALSE)

NextAsk ==
    \E p \in AskProcs :
        \/ AskStarts(p) \/ AskWithEvaluationStarts(p) \/ Runs(p)
        \/ ScoresRelevance(p) \/ ScoresCompleteness(p)

SpecAsk == InitAsk /\ [][NextAsk]_vars

\* ------------------------------------------------------------ example_four
\* The example_four backend, main.py and agent.py.  Its app is made without the
\* lifespan, so the global agent_instance stays None; every handler constructs
\* an AgentDocument of its own, which loads the index from the folder
\* "storage" or, when that folder is missing, builds it from the folder "data"
\* and persists it.  In SpecFour data is the folder "data", vectorTable tells
\* whether the folder "storage" exists and index is the index persisted there.

FourNames == {"a", "b"}

\* uploadpath = "data"
uploadpath == [type |-> "str", text |-> "data"]
\* Path("data") / filename
PathOf(filename) == [type |-> "Path", text |-> filename]

\* left / filename: a Path for a Path, TypeError for a str.
truediv(left, filename) ==
    IF left.type = "Path" THEN Returns(PathOf(filename)) ELSE Raises

\* uploadpath.iterdir(): a str has no iterdir.
iterdir(path, folder) ==
    IF path.type = "Path" THEN Returns(DOMAIN folder) ELSE Raises

\* AgentDocument.load_index, called by the constructor; the reader raises on a
\* folder without files, fails is from_documents or persist raising.
four_load_index(folder, stored, idx, fails) ==
    IF stored THEN [raised |-> FALSE, stored |-> TRUE, index |-> idx]
    ELSE IF DOMAIN folder = {} \/ fails
    THEN [raised |-> TRUE, stored |-> FALSE, index |-> idx]
    ELSE LET docs == LoadFolder(folder, DOMAIN folder, {}, {}, 0)
         IN  [raised |-> FALSE, stored |-> TRUE,
              index |-> InsertAll({}, docs, Len(docs))]

\* AgentDocument.add_file_context_to_agent(filename): the reader is given the
\* path of the file as its input_dir and raises, for it is no directory.
four_add_file_context_to_agent(folder, idx, filename) ==
    [raised |-> TRUE, index |-> idx]

\* AgentDocument.update_document(filepath): load_data and self.index.insert of
\* the first document, in the index of this AgentDocument only.
four_update_document(folder, idx, filename) ==
    [raised |-> FALSE, index |-> idx]

\* AgentDocument.delete_file(filename)
four_delete_file(folder, filename) == [g \in DOMAIN folder \ {filename} |-> folder[g]]

\* What a handler of example_four returns and what it did: the keys of its
\* body and their values, the file it saved, the arguments of its calls of
\* agent.run and of add_file_context_to_agent.
FourReply(op, filename, keys, message, response, saved, run_calls, add_calls) ==
    [op |-> op, filename |-> filename, keys |-> keys, message |-> message,
     response |-> response, saved |-> saved, run_calls |-> run_calls,
     add_calls |-> add_calls, doc_id |-> None]

\* {"error": str(e), "status": "failed"}
FourFailed(op, filename, saved, run_calls, add_calls) ==
    FourReply(op, filename, {"error", "status"}, "", [text |-> ""], saved,
              run_calls, add_calls)

FourOutcome(folder, stored, idx, reply) ==
    [data |-> folder, stored |-> stored, index |-> idx, last |-> reply]

\* POST /ask/
four_ask_question(message, runs, response, fails) ==
    LET agent == four_load_index(data, vectorTable, index, fails)
    IN  IF agent.raised
        THEN FourOutcome(data, agent.stored, agent.index,
                         FourFailed("ask", "", FALSE, <<>>, <<>>))
        ELSE IF ~runs
        THEN FourOutcome(data, agent.stored, agent.index,
                         FourFailed("ask", "", FALSE, <<message>>, <<>>))
        ELSE FourOutcome(data, agent.stored, agent.index,
                         FourReply("ask", "", {"response"}, "", response, FALSE,
                                   <<message>>, <<>>))

\* POST /upload/
four_upload_file(filename, file, fails) ==
    LET file_path == truediv(uploadpath, filename)
        saved == save_file_to_data_folder(data, filename, file)
        agent == four_load_index(saved, vectorTable, index, fails)
        added == four_add_file_context_to_agent(saved, agent.index, filename)
    IN  IF file_path.raised
        THEN FourOutcome(data, vectorTable, index,
                         FourFailed("upload", filename, FALSE, <<>>, <<>>))
        ELSE IF agent.raised
        THEN FourOutcome(saved, agent.stored, agent.index,
                         FourFailed("upload", filename, TRUE, <<>>, <<>>))
        ELSE IF added.raised
        THEN FourOutcome(saved, agent.stored, agent.index,
                         FourFailed("upload", filename, TRUE, <<>>, <<filename>>))
        ELSE FourOutcome(saved, TRUE, added.index,
                         FourReply("upload", filename,
                                   {"filename", "message", "file_path"},
                                   "File saved successfully", [text |-> ""], TRUE,
                                   <<>>, <<filename>>))

\* PUT /update/
four_update_file(filename, file, fails) ==
    LET file_path == truediv(uploadpath, filename)
        saved == save_file_to_data_folder(data, filename, file)
        agent == four_load_index(saved, vectorTable, index, fails)
        updated == four_update_document(saved, agent.index, filename)
    IN  IF file_path.raised
        THEN FourOutcome(data, vectorTable, index,
                         FourFailed("update", filename, FALSE, <<>>, <<>>))
        ELSE IF agent.raised \/ updated.raised
        THEN FourOutcome(saved, agent.stored, agent.index,
                         FourFailed("update", filename, TRUE, <<>>, <<>>))
        ELSE FourOutcome(saved, agent.stored, agent.index,
                         FourReply("update", filename,
                                   {"filename", "message", "file_path"},
                                   "File updated successfully", [text |-> ""], TRUE,
                                   <<>>, <<>>))

\* GET /files/
four_list_files ==
    IF iterdir(uploadpath, data).raised
    THEN FourOutcome(data, vectorTable, index,
                     FourFailed("list_files", "", FALSE, <<>>, <<>>))
    ELSE FourOutcome(data, vectorTable, index,
                     FourReply("list_files", "", {"files"}, "", [text |-> ""], FALSE,
                               <<>>, <<>>))

\* DELETE /delete/{filename}
four_delete_file_endpoint(filename, fails) ==
    LET agent == four_load_index(data, vectorTable, index, fails)
    IN  IF agent.raised
        THEN FourOutcome(data, agent.stored, agent.index,
                         FourFailed("delete", filename, FALSE, <<>>, <<>>))
        ELSE FourOutcome(four_delete_file(data, filename), agent.stored, agent.index,
                         FourReply("delete", filename, {"filename", "message"},
                                   "File deleted successfully", [text |-> ""], FALSE,
                                   <<>>, <<>>))

ApplyFour(out) ==
    /\ data' = out.data
    /\ vectorTable' = out.stored
    /\ index' = out.index
    /\ last' = out.last
    /\ UNCHANGED <<workers, agent_instance, readerKeys, meta, now, faults>>

FourAsk ==
    \E message \in Messages, runs \in BOOLEAN, response \in RunOutputs, fails \in BOOLEAN :
        ApplyFour(four_ask_question(message, runs, response, fails))

FourUpload ==
    \E filename \in FourNames, pages \in 1..MaxDocs, fails \in BOOLEAN :
        ApplyFour(four_upload_file(filename, [size |-> now, pages |-> pages], fails))

FourUpdate ==
    \E filename \in FourNames, pages \in 1..MaxDocs, fails \in BOOLEAN :
        ApplyFour(four_update_file(filename, [size |-> now, pages |-> pages], fails))

FourListFiles == ApplyFour(four_list_files)

FourDelete ==
    \E filename \in FourNames, fails \in BOOLEAN :
        ApplyFour(four_delete_file_endpoint(filename, fails))

\* A checkout with some files in "data" and no "storage".
InitFour ==
    /\ workers = [p \in Procs |-> Idle]
    /\ agent_instance = NoAgent
    /\ vectorTable = FALSE
    /\ readerKeys = {}
    /\ data \in UNION {[S -> [size : {0}, pages : 1..MaxDocs]] : S \in SUBSET FourNames}
    /\ meta = {}
    /\ index = {}
    /\ now = 1
    /\ faults = 0
    /\ last = FourReply("none", "", {}, "", [text |-> ""], FALSE, <<>>, <<>>)

NextFour == FourAsk \/ FourUpload \/ FourUpdate \/ FourListFiles \/ FourDelete

SpecFour == InitFour /\ [][NextFour]_vars

\* ------------------------------------------------------------ the claims

RowsOf(table, f) == {r \in table : r.filename = f}
MetaIds(table) == {r.doc_id : r \in table}
IndexIds(idx) == {e.doc_id : e \in idx}
HasRow(table, f) == \E r \in table : r.filename = f
StoresUnchanged == data' = data /\ meta' = meta /\ index' = index

\* C1: after every completed upload, update or delete, failed or not, the
\* document ids of the vector index are the doc_id values of the
\* document_metadata table.
C1_StoresAgree == IndexIds(index) = MetaIds(meta)

\* C2: an upload of a filename that has a metadata row is refused (or fails in
\* the filename query itself) and changes nothing: the data folder, the
\* metadata table and the index stay as they were, and no index call is made.
C2_UploadOfExistingChangesNothing ==
    [][(last'.op = "upload" /\ HasRow(meta, last'.filename)) =>
          /\ StoresUnchanged
          /\ last'.idx_calls = 0
          /\ last'.resp \in {UploadExists, UploadError}
          /\ last'.resp = UploadError => last'.meta_error]_vars

C2_Witness ==
    /\ last.op = "upload"
    /\ last.resp = UploadExists
    /\ HasRow(meta, last.filename)
    /\ last.filename \in DOMAIN data

\* C3: an upload of a filename without a metadata row, in which nothing
\* raises, succeeds; afterwards a lookup of the filename returns one document
\* id, not None, and keeps returning it until the file is deleted.
C3_UploadGivesOneStableId ==
    [][/\ (/\ last'.op = "upload"
           /\ ~HasRow(meta, last'.filename)
           /\ ~last'.idx_error /\ ~last'.meta_error /\ ~last'.io_error)
          => /\ last'.resp = UploadOk
             /\ Cardinality(get_doc_id_from_filename(meta', last'.filename)) = 1
             /\ None \notin get_doc_id_from_filename(meta', last'.filename)
       /\ \A f \in Filenames :
            (/\ Cardinality(get_doc_id_from_filename(meta, f)) = 1
             /\ None \notin get_doc_id_from_filename(meta, f)
             /\ last'.op # "delete")
            => get_doc_id_from_filename(meta', f) = get_doc_id_from_filename(meta, f)]_vars

\* C4: when an index insert raises during an upload, the upload does not
\* report success and the metadata table is as it was before the request.
C4_IndexErrorWritesNoRow ==
    [][(last'.op = "upload" /\ last'.idx_error) =>
          (last'.resp # UploadOk /\ meta' = meta)]_vars

\* C5: an upload whose metadata insert failed while every index insert
\* returned does not answer what a fully successful upload answers.
C5_MetadataFailureIsSurfaced ==
    (/\ last.op = "upload"
     /\ last.meta_error /\ ~last.idx_error /\ last.idx_calls > 0)
    => last.resp # UploadOk

\* C6: a success response means both stores took the request: after a
\* successful upload the file has a metadata row whose document is indexed,
\* after a successful update the row and the index hold the new content,
\* after a successful delete the row and the index entry are gone.
C6_SuccessMeansBothStores ==
    /\ (last.op = "upload" /\ last.resp = UploadOk) =>
          \E r \in RowsOf(meta, last.filename) : r.doc_id \in IndexIds(index)
    /\ (last.op = "update" /\ last.resp = UpdateOk) =>
          /\ \A r \in meta : r.doc_id = last.doc_id =>
                r.size = data[last.filename].size
          /\ \A e \in index : e.doc_id = last.doc_id =>
                e.file_size = data[last.filename].size
    /\ (last.op = "delete" /\ last.resp = DeleteOk) =>
          /\ last.doc_id \notin MetaIds(meta)
          /\ last.doc_id \notin IndexIds(index)

\* C7: after a successful update of a filename, a lookup of the filename
\* returns the doc_id it returned before the update, the new content is
\* indexed under that doc_id, and the filename has no more metadata rows than
\* it had.
C7_UpdateKeepsDocId ==
    [][(last'.op = "update" /\ last'.resp = UpdateOk) =>
          /\ get_doc_id_from_filename(meta, last'.filename) = {last'.doc_id}
          /\ get_doc_id_from_filename(meta', last'.filename) = {last'.doc_id}
          /\ Cardinality(RowsOf(meta', last'.filename))
                = Cardinality(RowsOf(meta, last'.filename))
          /\ \E e \in index' :
                /\ e.doc_id = last'.doc_id
                /\ e.file_size = data'[last'.filename].size]_vars

\* C8: an update of a filename that has no metadata row is refused (or fails
\* in the filename query itself) and changes nothing: the file is not
\* written, no index call is made and no row is created.
C8_UpdateOfMissingChangesNothing ==
    [][(last'.op = "update" /\ ~HasRow(meta, last'.filename)) =>
          /\ StoresUnchanged
          /\ last'.idx_calls = 0
          /\ last'.resp \in {UpdateMissing, UpdateError}
          /\ last'.resp = UpdateError => last'.meta_error]_vars

C8_Witness ==
    /\ last.op = "update"
    /\ last.resp = UpdateMissing
    /\ ~HasRow(meta, last.filename)

\* C9: when re-indexing raises during an update, the update does not report
\* success and the metadata table and the index are as they were before the
\* request.
C9_FailedReindexLeavesStores ==
    [][(last'.op = "update" /\ last'.idx_error) =>
          (last'.resp # UpdateOk /\ meta' = meta /\ index' = index)]_vars

\* C10: a successful update sets modified_at of the file's metadata row to a
\* later timestamp than the row had before.
C10_UpdateAdvancesModifiedAt ==
    [][(last'.op = "update" /\ last'.resp = UpdateOk) =>
          \A r \in meta, u \in meta' :
              (r.doc_id = last'.doc_id /\ u.doc_id = last'.doc_id)
              => u.modified_at > r.modified_at]_vars

\* C11: a delete runs index deletion, metadata deletion and file removal in
\* this order, each step only if the one before it succeeded: a metadata row
\* goes only after the index dropped its doc_id, and the file is removed only
\* after both the index deletion and the metadata deletion succeeded.
C11_DeleteStepsInOrder ==
    [][last'.op = "delete" =>
          /\ \A d \in MetaIds(meta) \ MetaIds(meta') :
                ~last'.idx_error /\ d \notin IndexIds(index')
          /\ (last'.resp = DeleteOk \/ last'.io_error) =>
                (~last'.idx_error /\ ~last'.meta_error)]_vars

\* C12: a delete whose index deletion raises reports the failure and leaves
\* the metadata table, the data folder and the index as they were; a lookup
\* of the filename still returns the doc_id, so the delete can be retried.
C12_IndexErrorKeepsRowAndFile ==
    [][(last'.op = "delete" /\ last'.idx_error) =>
          /\ last'.resp = DeleteIndexFailed
          /\ StoresUnchanged
          /\ last'.doc_id \in get_doc_id_from_filename(meta', last'.filename)]_vars

C12_Witness ==
    /\ last.op = "delete"
    /\ last.idx_error
    /\ last.resp = DeleteIndexFailed
    /\ last.filename \in DOMAIN data
    /\ last.doc_id \in MetaIds(RowsOf(meta, last.filename))

\* C13: a successful delete that follows a successful upload of the same
\* filename leaves no metadata row of the filename and makes one index call;
\* a delete of a filename without a row is answered as not found, makes no
\* index call and removes no file.
C13_DeleteOnceThenNotFound ==
    [][/\ (/\ last.op = "upload" /\ last.resp = UploadOk
           /\ last'.op = "delete" /\ last'.resp = DeleteOk
           /\ last'.filename = last.filename)
          => (~HasRow(meta', last'.filename) /\ last'.idx_calls = 1)
       /\ (last'.op = "delete" /\ ~HasRow(meta, last'.filename) /\ ~last'.meta_error)
          => (/\ last'.resp = DeleteNoId
              /\ last'.idx_calls = 0
              /\ data' = data)]_vars

\* C14: of two uploads of one filename that both started without a metadata
\* row of it and ran at the same time, one succeeds and the other is answered
\* that the file exists, and the filename ends with no more than one metadata
\* row and one index entry.
C14_ConcurrentUploadsOneWins ==
    \A p, q \in Procs :
        (/\ p # q
         /\ workers[p].op = "upload" /\ workers[q].op = "upload"
         /\ workers[p].filename = workers[q].filename
         /\ workers[p].pc = "idle" /\ workers[q].pc = "idle"
         /\ workers[p].rival)
        => /\ {workers[p].resp, workers[q].resp} = {UploadOk, UploadExists}
           /\ Cardinality(RowsOf(meta, workers[p].filename)) <= 1
           /\ Cardinality({e \in index : e.file_name = workers[p].filename}) <= 1

\* C15: an update that looked up the doc_id of a filename before a delete of
\* the filename removed the metadata row creates neither an index entry nor a
\* metadata row under that doc_id afterwards.
C15_UpdateDoesNotRecreate ==
    [][\A p \in Procs :
          (/\ workers[p].op = "update"
           /\ workers[p].pc \in {"reindex", "session"}
           /\ workers'[p] # workers[p]
           /\ ~check_document_exists_with_doc_id(meta, workers[p].doc_id))
          => /\ workers[p].doc_id \notin IndexIds(index')
             /\ workers[p].doc_id \notin MetaIds(meta')]_vars

\* A step in which an AgentDocument is constructed, and one in which a request
\* constructs it again.
ConstructsAgain ==
    \/ last'.op = "set_task_type" /\ last'.resp = TaskTypeSet
    \/ last'.op = "ask" /\ agent_instance'.task_type # agent_instance.task_type
Constructs == last'.op = "lifespan" \/ ConstructsAgain

\* C16: load_or_create_index attaches to the index and writes no metadata
\* when the table of the vector store exists; when it built the index from
\* the data folder, every file of the folder is indexed and has one metadata
\* row.
C16_AttachOrBulkLoad ==
    [][Constructs =>
          /\ vectorTable =>
                (agent_instance'.index = "from_vector_store" /\ meta' = meta)
          /\ agent_instance'.index = "from_documents" =>
                \A f \in DOMAIN data' :
                    /\ Cardinality(RowsOf(meta', f)) = 1
                    /\ \E e \in index' : e.file_name = f]_vars

\* C17: the data folder is loaded at startup and never again: every request
\* is served by an agent whose index was loaded, and a request that
\* constructs the AgentDocument again attaches to the index and changes
\* neither the metadata table nor the index.
C17_BulkLoadOnlyAtStartup ==
    [][/\ last'.op \in {"upload", "update", "delete", "ask", "set_task_type"} =>
            (Served /\ ~IndexIsNone)
       /\ ConstructsAgain =>
            /\ agent_instance'.index = "from_vector_store"
            /\ meta' = meta
            /\ index' = index]_vars

\* C18: no two rows of the metadata table have the same doc_id.
C18_DocIdIsUnique ==
    \A r, u \in meta : r.doc_id = u.doc_id => r = u

C18_Witness ==
    /\ last.op = "update"
    /\ last.resp = UpdateOk
    /\ Cardinality(meta) >= 2
    /\ \E r \in meta :
          r.doc_id = last.doc_id /\ r.size = data[last.filename].size

\* C19: the metadata table holds no more than one row of a filename, so that
\* GET /files lists no filename twice.
C19_OneRowPerFilename ==
    \A f \in DOMAIN list_files(meta) : list_files(meta)[f] = 1

\* C20: a request in which a call of the agent, the index, the metadata store
\* or the file system raised returns a failure, never what a successful
\* request returns.
C20_ErrorsAreReturned ==
    (last.idx_error \/ last.meta_error \/ last.io_error) =>
        last.resp \notin {UploadOk, UpdateOk, DeleteOk, TaskTypeSet, AskOk}

\* A worker whose question has returned with a quality report: completions[1]
\* went to evaluate_relevance, completions[2] to evaluate_completeness.
Evaluated(w) == w.pc = "idle" /\ "evaluation" \in w.body.keys

\* The reply is not the JSON object asked for, with a number as its score.
NotAsExpected(reply) ==
    \/ reply.form \notin {"object", "fenced", "embedded"}
    \/ "score" \notin reply.json.keys
    \/ reply.json.score.type # "number"

\* The reply gives a score of 0.0 to 1.0.
InTenths(reply) == ~NotAsExpected(reply) /\ reply.json.score.tenths <= 10

\* The band of an overall score given in hundredths.
BandOf(hundredths) ==
    IF hundredths >= 80 THEN High
    ELSE IF hundredths >= 60 THEN Moderate
    ELSE IF hundredths >= 40 THEN Low
    ELSE Poor

\* C21: evaluate_relevance and evaluate_completeness never raise, and for a
\* reply that is not the JSON object asked for, or a completion call that
\* failed, the sub-score is 0.0 and the explanation notes the failure.
C21_UnparsableReplyIsNoted ==
    \A p \in AskProcs :
        LET w == workers[p]
            report == w.body.evaluation
        IN  /\ w.pc = "idle" /\ Len(w.completions) = 2 => Evaluated(w)
            /\ Evaluated(w) /\ NotAsExpected(w.completions[1]) =>
                  /\ report.relevance.relevance_score = Zero
                  /\ report.relevance.explanation = EvaluationError
            /\ Evaluated(w) /\ NotAsExpected(w.completions[2]) =>
                  /\ report.completeness.completeness_score = Zero
                  /\ report.completeness.explanation = EvaluationError

\* C22: for sub-scores of r and c tenths the overall score is 0.6*r + 0.4*c,
\* that is 6*r + 4*c hundredths, and the recommendation is the band of that
\* number: high from 0.8, moderate from 0.6, low from 0.4, poor below.
C22_BandOfWeightedSum ==
    \A p \in AskProcs :
        LET w == workers[p]
        IN  Evaluated(w) /\ InTenths(w.completions[1]) /\ InTenths(w.completions[2]) =>
                w.body.evaluation.recommendation =
                    BandOf(6 * w.completions[1].json.score.tenths
                               + 4 * w.completions[2].json.score.tenths)

\* C27: whatever the completion service replies, the relevance score, the
\* completeness score and the overall score of a report are from 0.0 to 1.0.
C27_ScoresWithinUnitInterval ==
    \A p \in AskProcs :
        LET report == workers[p].body.evaluation
        IN  Evaluated(workers[p]) =>
                \A score \in {report.relevance.relevance_score,
                              report.completeness.completeness_score,
                              report.overall_quality_score} :
                    FloatGE(score, Zero) /\ FloatGE(FloatOfTenths(10), score)

\* The completion call failed, or its text is not JSON of the kind asked for.
FailedOrUnparsable(reply) ==
    reply.form \in {"raises", "two_objects", "malformed", "prose", "array"}

\* A worker whose POST /ask with evaluate_context has returned after the
\* agent's run gave a response.
AnsweredWithEvaluation(w) ==
    w.pc = "idle" /\ w.op = "ask" /\ w.evaluate_context /\ w.output \in RunOutputs

\* C23: a POST /ask with evaluate_context whose agent gave a response returns
\* that response with status success whatever the two completions of the
\* evaluator do; the sub-score of a completion that failed or is unparsable
\* is 0.0, and when both are, the report is the zero report (overall 0.0,
\* poor quality).
C23_EvaluationNeverBlocksAnswer ==
    \A p \in AskProcs :
        LET w == workers[p]
            report == w.body.evaluation
        IN  AnsweredWithEvaluation(w) =>
                /\ w.body.keys = {"response", "evaluation", "status"}
                /\ w.body.status = AskOk
                /\ w.body.response = str(w.output)
                /\ FailedOrUnparsable(w.completions[1]) =>
                       report.relevance.relevance_score = Zero
                /\ FailedOrUnparsable(w.completions[2]) =>
                       report.completeness.completeness_score = Zero
                /\ FailedOrUnparsable(w.completions[1])
                       /\ FailedOrUnparsable(w.completions[2]) =>
                       /\ report.overall_quality_score = Zero
                       /\ report.recommendation = Poor

\* A POST /ask with evaluate_context has returned after the first completion
\* call raised and the second gave a text without JSON.
C23_Witness ==
    \E p \in AskProcs :
        /\ AnsweredWithEvaluation(workers[p])
        /\ workers[p].completions[1].form = "raises"
        /\ workers[p].completions[2].form = "prose"
        /\ workers[p].body.status = AskOk

\* C24: a POST /ask that succeeds has invoked the agent's run exactly once,
\* with the message of the request, and its response field is what that run
\* produced.
C24_RunOnceWithMessage ==
    \A p \in AskProcs :
        LET w == workers[p]
        IN  w.pc = "idle" /\ w.op = "ask" /\ w.body.status = AskOk =>
                /\ w.run_calls = <<w.message>>
                /\ w.output \in RunOutputs
                /\ w.body.response = str(w.output)

\* A POST /ask for "q2" has succeeded with what the run gave, "r2".
C24_Witness ==
    \E p \in AskProcs :
        /\ workers[p].pc = "idle" /\ workers[p].op = "ask"
        /\ workers[p].body.status = AskOk
        /\ workers[p].message = "q2"
        /\ workers[p].run_calls = <<"q2">>
        /\ workers[p].body.response = "r2"

\* C25: in example_four a POST /upload/ saves the file under the data
\* directory, then calls add_file_context_to_agent with its filename, and
\* returns the filename with the message 'File saved successfully'.
C25_FourUploadSavesAndAdds ==
    last.op = "upload" =>
        /\ last.saved
        /\ last.filename \in DOMAIN data
        /\ last.add_calls = <<last.filename>>
        /\ {"filename", "message"} \subseteq last.keys
        /\ last.message = "File saved successfully"

\* C26: in an upload or an update, the metadata table is written for a
\* document only after the index calls for it have returned: a request that
\* changed the metadata table had no index call that raised.
C26_IndexWriteBeforeMetadataWrite ==
    [][(last'.op \in {"upload", "update"} /\ meta' # meta) =>
          (last'.idx_calls > 0 /\ ~last'.idx_error)]_vars

\* The index holds an entry of file f.
InIndex(idx, f) == \E e \in idx : e.file_name = f

C29_FailedUpdateKeepsNewFileOldStores ==
    [][(last'.op = "update" /\ last'.idx_error) =>
          /\ last'.filename \in DOMAIN data'
          /\ data'[last'.filename].size = now
          /\ \A r \in RowsOf(meta', last'.filename) : r.size # now
          /\ \A e \in index' : e.file_name = last'.filename => e.file_size # now
          /\ meta' = meta]_vars

\* C30: lifespan publishes an agent and answers as started whatever
\* load_or_create_index met, and when the reader or the index build raised
\* the agent's index is None.  On such an agent an upload of a file without a
\* metadata row, in which no other call raises, fails and still leaves a
\* metadata row of the file, the file saved and the index as it was.
C30_FailedBootstrapIsServed ==
    [][/\ last'.op = "lifespan" =>
            /\ Served'
            /\ last'.resp = Started
            /\ (last'.idx_error \/ last'.io_error) => IndexIsNone'
       /\ (/\ IndexIsNone
           /\ last'.op = "upload"
           /\ ~HasRow(meta, last'.filename)
           /\ ~last'.meta_error /\ ~last'.io_error)
          => /\ last'.resp = UploadError
             /\ last'.idx_error
             /\ HasRow(meta', last'.filename)
             /\ last'.filename \in DOMAIN data'
             /\ index' = index]_vars

\* On an agent whose index is None, before the table of the vector store
\* exists, an upload has just failed and left a metadata row of its file.
C30_Witness ==
    /\ IndexIsNone
    /\ ~vectorTable
    /\ last.op = "upload"
    /\ last.resp = UploadError
    /\ last.idx_error
    /\ HasRow(meta, last.filename)
    /\ ~InIndex(index, last.filename)

====
